---- MODULE Spec2Model ----
(***************************************************************************)
(* Model of scripts/build_layers.py: the batch pipeline                    *)
(*   load_parcels -> load_projects_table -> merge -> build_project_layer   *)
(* that joins parcel geometries with the project CSVs and writes           *)
(* UNDER_CONSTRUCTION.geojson and COMPLETED_2025.geojson.                  *)
(*                                                                         *)
(* Strings that the code inspects character by character (the parcel key)  *)
(* are sequences of one-character strings, so that str.strip and           *)
(* str.endswith are computed.  A missing value (pandas NaN/None) is NaN.   *)
(* A geometry is the set of unit cells it covers on a line, together with  *)
(* the CRS its coordinates are expressed in and whether its vertices went  *)
(* through simplify(): union is set union, the convex hull fills the gaps. *)
(***************************************************************************)
EXTENDS Integers, Sequences, FiniteSets, TLC

VARIABLES
    cityFile,           \* data_local/parcels_citywide.geojson
    customFile,         \* data_local/custom_parcels.geojson
    assignCsv,          \* data_local/project_parcels.csv
    projCsv,            \* data_local/project_list.csv
    diskUC,             \* data/UNDER_CONSTRUCTION.geojson
    diskC25,            \* data/COMPLETED_2025.geojson
    pc,                 \* position of the run inside main()
    failedIn,           \* the step whose exception ended the run ("none" otherwise)
    readSrc,            \* input sources the current run has opened
    written,            \* output files the current run has written
    parcels,            \* main: parcels
    project_data,       \* main: project_data
    merged,             \* main: merged
    gdf_non_custom,     \* build_project_layer: gdf_non_custom
    gdf_custom,         \* build_project_layer: gdf_custom
    gdf_combined,       \* build_project_layer: gdf_combined
    under_construction, \* build_project_layer: under_construction
    completed_2025,     \* build_project_layer: completed_2025
    rerun,              \* TRUE once the script has been started a second time
    prevCompleted,      \* the previous run of the script reached "Complete"
    startDisk           \* the two output files as they were when this run started

inputs == <<cityFile, customFile, assignCsv, projCsv>>
disk   == <<diskUC, diskC25>>
locals == <<parcels, project_data, merged, gdf_non_custom, gdf_custom,
            gdf_combined, under_construction, completed_2025>>
vars   == <<inputs, disk, pc, failedIn, readSrc, written, locals,
            rerun, prevCompleted, startDisk>>

----------------------------------------------------------------------------
(* Values *)

NaN == "NaN"

CUST == <<"C", "U", "S", "T">>

OUT_UNDER_CONSTRUCTION == "data/UNDER_CONSTRUCTION.geojson"

OUT_COMPLETED_2025 == "data/COMPLETED_2025.geojson"

TargetCrs == "EPSG:4326"

OtherCrs == "EPSG:2248"

Range(s) == {s[i] : i \in 1..Len(s)}

RECURSIVE Flatten(_)
Flatten(ss) == IF ss = <<>> THEN <<>> ELSE Head(ss) \o Flatten(Tail(ss))

SeqsUpTo(S, n) == UNION {[1..k -> S] : k \in 0..n}

Min(S) == CHOOSE x \in S : \A y \in S : x <= y

Max(S) == CHOOSE x \in S : \A y \in S : x >= y

----------------------------------------------------------------------------
(* Strings *)

\* str.strip(): leading and trailing blanks removed
RECURSIVE LStrip(_)
LStrip(s) == IF s # <<>> /\ Head(s) = " " THEN LStrip(Tail(s)) ELSE s

RECURSIVE RStrip(_)
RStrip(s) == IF s # <<>> /\ s[Len(s)] = " " THEN RStrip(SubSeq(s, 1, Len(s) - 1)) ELSE s

Strip(s) == RStrip(LStrip(s))

\* str.endswith(suffix)
EndsWith(s, suffix) ==
    /\ Len(s) >= Len(suffix)
    /\ SubSeq(s, Len(s) - Len(suffix) + 1, Len(s)) = suffix

\* Series.astype(str) on an object column: a missing value prints as "nan"
AsStr(v) == IF v = NaN THEN "nan" ELSE v

----------------------------------------------------------------------------
(* Geometry *)

\* the cells of the line the geometries lie on
Cells == 0..9

Geom(area, crs) == [area |-> area, crs |-> crs, simplified |-> FALSE]

\* GeoDataFrame.to_crs(4326): the same shape, expressed in the target CRS
ToCrs(g) == [g EXCEPT !.crs = TargetCrs]

\* dissolve merges the geometries of one group into their union
UnionAll(gs) == [area |-> UNION {g.area : g \in gs}, crs |-> TargetCrs, simplified |-> FALSE]

\* GeoSeries.convex_hull: the smallest convex shape around the geometry
ConvexHull(g) == [g EXCEPT !.area = IF g.area = {} THEN {} ELSE Min(g.area)..Max(g.area)]

\* GeoSeries.simplify(SIMPLIFY_TOL, preserve_topology=True): same extent, fewer vertices
Simplify(g) == [g EXCEPT !.simplified = TRUE]

----------------------------------------------------------------------------
(* load_parcels *)

Failure == [ok |-> FALSE, value |-> <<>>]

Success(v) == [ok |-> TRUE, value |-> v]

\* lines 26-30 and 37-39: reproject when the file is not in EPSG:4326, key as stripped string
NormalizeParcels(file) ==
    [i \in 1..Len(file.rows) |->
        [PIN      |-> Strip(file.rows[i].PIN),
         geometry |-> IF file.crs # TargetCrs THEN ToCrs(file.rows[i].geometry)
                      ELSE file.rows[i].geometry]]

\* faulty variant: the FileNotFoundError of the custom source is not caught
load_parcels_no_except(city, custom) ==
    IF city.state # "present" \/ custom.state # "present" THEN Failure
    ELSE Success(NormalizeParcels(city) \o NormalizeParcels(custom))

\* read_file of the city source raises when it is missing or unreadable; a missing
\* custom source raises FileNotFoundError, which is caught; any other failure of
\* the custom source propagates.
load_parcels(city, custom) ==
    IF city.state # "present" THEN Failure
    ELSE IF custom.state = "absent" THEN Success(NormalizeParcels(city))
    ELSE IF custom.state # "present" THEN Failure
    ELSE Success(NormalizeParcels(city) \o NormalizeParcels(custom))

\* the sources load_parcels opens before it returns or raises
ParcelSourcesRead(city) ==
    IF city.state # "present" THEN {"city"} ELSE {"city", "custom"}

----------------------------------------------------------------------------
(* load_projects_table *)

\* validate="m:1": the right keys must be unique
IsUnique(rows) ==
    \A i, j \in 1..Len(rows) : rows[i].project_id = rows[j].project_id => i = j

ProjectRow(a, p) ==
    [parcel_id      |-> a.parcel_id,
     project_id     |-> a.project_id,
     project_status |-> a.project_status,
     completed_year |-> a.completed_year,
     project_name   |-> p.project_name,
     project_link   |-> p.project_link]

NoMetadata == [project_name |-> NaN, project_link |-> NaN]

MatchesOf(a, proj_list) ==
    SelectSeq(proj_list, LAMBDA p : p.project_id = a.project_id)

\* faulty variant: how="inner", assignments without a project row are dropped
LeftJoinInner(parcels_tbl, proj_list) ==
    Flatten([i \in 1..Len(parcels_tbl) |->
        LET ms == MatchesOf(parcels_tbl[i], proj_list)
        IN  [k \in 1..Len(ms) |-> ProjectRow(parcels_tbl[i], ms[k])]])

\* merge(how="left"): every left row, in order, once per matching right row,
\* and once with missing metadata when nothing matches
LeftJoin(parcels_tbl, proj_list) ==
    Flatten([i \in 1..Len(parcels_tbl) |->
        LET ms == MatchesOf(parcels_tbl[i], proj_list)
        IN  IF ms = <<>> THEN <<ProjectRow(parcels_tbl[i], NoMetadata)>>
            ELSE [k \in 1..Len(ms) |-> ProjectRow(parcels_tbl[i], ms[k])]])

load_projects_table(assign, proj) ==
    IF assign.state # "present" \/ proj.state # "present" THEN Failure
    ELSE IF ~IsUnique(proj.rows) THEN Failure
    ELSE Success(LeftJoin(assign.rows, proj.rows))

TableSourcesRead(assign) ==
    IF assign.state # "present" THEN {"assign"} ELSE {"assign", "projlist"}

----------------------------------------------------------------------------
(* main: the inner join *)

MergedRow(p, d) ==
    [PIN            |-> p.PIN,
     geometry       |-> p.geometry,
     parcel_id      |-> d.parcel_id,
     project_id     |-> d.project_id,
     project_status |-> d.project_status,
     completed_year |-> d.completed_year,
     project_name   |-> d.project_name,
     project_link   |-> d.project_link]

NoProject ==
    [parcel_id |-> <<>>, project_id |-> NaN, project_status |-> NaN,
     completed_year |-> NaN, project_name |-> NaN, project_link |-> NaN]

\* faulty variant: how="left", parcels without an assignment are kept
InnerJoinKeepLeft(ps, ds) ==
    Flatten([i \in 1..Len(ps) |->
        LET ms == SelectSeq(ds, LAMBDA d : d.parcel_id = ps[i].PIN)
        IN  IF ms = <<>> THEN <<MergedRow(ps[i], NoProject)>>
            ELSE [k \in 1..Len(ms) |-> MergedRow(ps[i], ms[k])]])

\* merge(left_on=PIN, right_on="parcel_id", how="inner"): the matching pairs,
\* in the order of the left rows
InnerJoin(ps, ds) ==
    Flatten([i \in 1..Len(ps) |->
        LET ms == SelectSeq(ds, LAMBDA d : d.parcel_id = ps[i].PIN)
        IN  [k \in 1..Len(ms) |-> MergedRow(ps[i], ms[k])]])

----------------------------------------------------------------------------
(* build_project_layer *)

mask_custom(row) == EndsWith(row.PIN, CUST)

\* faulty variant: the custom rows are not taken out before the dissolve
NonCustomUnfiltered(m) == m

NonCustom(m) == SelectSeq(m, LAMBDA r : ~mask_custom(r))

Custom(m) == SelectSeq(m, LAMBDA r : mask_custom(r))

\* faulty variant: the value of the group's first row, missing or not
FirstValue(vals) == IF vals = <<>> THEN NaN ELSE Head(vals)

\* GroupBy.first: the first value of the group that is not missing
First(vals) ==
    LET present == SelectSeq(vals, LAMBDA v : v # NaN)
    IN  IF present = <<>> THEN NaN ELSE Head(present)

Column(rows, col) == [i \in 1..Len(rows) |-> rows[i][col]]

\* the project ids in the order groupby(sort=True) yields them
ProjectOrder == <<"P1", "P2">>

\* dissolve(by="project_id", aggfunc=agg): one row per project_id present in the
\* rows, groups sorted by key, rows without a project_id left out
Dissolve(rows) ==
    LET groups == SelectSeq(ProjectOrder,
                            LAMBDA p : \E i \in 1..Len(rows) : rows[i].project_id = p)
    IN  [g \in 1..Len(groups) |->
            LET grp == SelectSeq(rows, LAMBDA r : r.project_id = groups[g])
            IN  [project_id     |-> First(Column(grp, "project_id")),
                 project_name   |-> First(Column(grp, "project_name")),
                 project_link   |-> First(Column(grp, "project_link")),
                 project_status |-> First(Column(grp, "project_status")),
                 completed_year |-> First(Column(grp, "completed_year")),
                 geometry       |-> UnionAll({grp[i].geometry : i \in 1..Len(grp)})]]

Keep(r) ==
    [project_id     |-> r.project_id,
     project_name   |-> r.project_name,
     project_link   |-> r.project_link,
     project_status |-> r.project_status,
     completed_year |-> r.completed_year,
     geometry       |-> r.geometry]

\* lines 108-130: dissolve, convex hull, keep the columns, simplify
BuildNonCustom(m) ==
    LET dissolved == Dissolve(NonCustom(m))
    IN  [i \in 1..Len(dissolved) |->
            [Keep(dissolved[i]) EXCEPT !.geometry = Simplify(ConvexHull(dissolved[i].geometry))]]

\* lines 133-136: the custom rows, columns kept
BuildCustom(m) ==
    LET custom == Custom(m)
    IN  [i \in 1..Len(custom) |-> Keep(custom[i])]

\* faulty variant: the year is not tested
IsCompletedAnyYear(f) == f.project_status = "Completed"

IsUnderConstruction(f) == f.project_status = "Under Construction"

IsCompleted2025(f) ==
    f.project_status = "Completed" /\ AsStr(f.completed_year) = "2025"

----------------------------------------------------------------------------
(* Files *)

NoFile == [exists |-> FALSE, features |-> <<>>]

\* faulty variant: the layer is appended to what the file holds
AppendToFile(old, layer) == [exists |-> TRUE, features |-> old.features \o layer]

\* GeoDataFrame.to_file(path, driver="GeoJSON"): the file is replaced by the layer
to_file(old, layer) == [exists |-> TRUE, features |-> layer]

----------------------------------------------------------------------------
(* The run: main() *)

EmptyLocals ==
    /\ parcels' = <<>>
    /\ project_data' = <<>>
    /\ merged' = <<>>
    /\ gdf_non_custom' = <<>>
    /\ gdf_custom' = <<>>
    /\ gdf_combined' = <<>>
    /\ under_construction' = <<>>
    /\ completed_2025' = <<>>

Raise(step) ==
    /\ pc' = "failed"
    /\ failedIn' = step

\* line 163
LoadParcels ==
    /\ pc = "load_parcels"
    /\ load_parcels(cityFile, customFile).ok
    /\ parcels' = load_parcels(cityFile, customFile).value
    /\ readSrc' = readSrc \cup ParcelSourcesRead(cityFile)
    /\ pc' = "load_projects_table"
    /\ UNCHANGED <<inputs, disk, failedIn, written, project_data, merged,
                   gdf_non_custom, gdf_custom, gdf_combined, under_construction,
                   completed_2025, rerun, prevCompleted, startDisk>>

LoadParcelsFail ==
    /\ pc = "load_parcels"
    /\ ~load_parcels(cityFile, customFile).ok
    /\ readSrc' = readSrc \cup ParcelSourcesRead(cityFile)
    /\ Raise("load_parcels")
    /\ UNCHANGED <<inputs, disk, written, locals, rerun, prevCompleted, startDisk>>

\* line 165
LoadProjectsTable ==
    /\ pc = "load_projects_table"
    /\ load_projects_table(assignCsv, projCsv).ok
    /\ project_data' = load_projects_table(assignCsv, projCsv).value
    /\ readSrc' = readSrc \cup TableSourcesRead(assignCsv)
    /\ pc' = "merge"
    /\ UNCHANGED <<inputs, disk, failedIn, written, parcels, merged,
                   gdf_non_custom, gdf_custom, gdf_combined, under_construction,
                   completed_2025, rerun, prevCompleted, startDisk>>

LoadProjectsTableFail ==
    /\ pc = "load_projects_table"
    /\ ~load_projects_table(assignCsv, projCsv).ok
    /\ readSrc' = readSrc \cup TableSourcesRead(assignCsv)
    /\ Raise("load_projects_table")
    /\ UNCHANGED <<inputs, disk, written, locals, rerun, prevCompleted, startDisk>>

\* lines 168-176
Merge ==
    /\ pc = "merge"
    /\ merged' = InnerJoin(parcels, project_data)
    /\ pc' = "build_project_layer"
    /\ UNCHANGED <<inputs, disk, failedIn, readSrc, written, parcels, project_data,
                   gdf_non_custom, gdf_custom, gdf_combined, under_construction,
                   completed_2025, rerun, prevCompleted, startDisk>>

\* lines 88-149 of build_project_layer: everything up to the first to_file
BuildProjectLayer ==
    /\ pc = "build_project_layer"
    /\ LET nc == BuildNonCustom(merged)
           cu == BuildCustom(merged)
           combined == nc \o cu
       IN  /\ gdf_non_custom' = nc
           /\ gdf_custom' = cu
           /\ gdf_combined' = combined
           /\ under_construction' = SelectSeq(combined, IsUnderConstruction)
           /\ completed_2025' = SelectSeq(combined, IsCompleted2025)
    /\ pc' = "write_under_construction"
    /\ UNCHANGED <<inputs, disk, failedIn, readSrc, written, parcels, project_data,
                   merged, rerun, prevCompleted, startDisk>>

\* faulty variant: an empty layer is not written
WriteUnderConstructionUnlessEmpty ==
    /\ pc = "write_under_construction"
    /\ IF under_construction = <<>>
       THEN UNCHANGED <<diskUC, written>>
       ELSE /\ diskUC' = to_file(diskUC, under_construction)
            /\ written' = written \cup {OUT_UNDER_CONSTRUCTION}
    /\ pc' = "write_completed_2025"
    /\ UNCHANGED <<inputs, diskC25, failedIn, readSrc, locals, rerun, prevCompleted,
                   startDisk>>

\* line 152
WriteUnderConstruction ==
    /\ pc = "write_under_construction"
    /\ diskUC' = to_file(diskUC, under_construction)
    /\ written' = written \cup {OUT_UNDER_CONSTRUCTION}
    /\ pc' = "write_completed_2025"
    /\ UNCHANGED <<inputs, diskC25, failedIn, readSrc, locals, rerun, prevCompleted,
                   startDisk>>

\* line 152, when the file cannot be written: to_file raises and nothing is stored
WriteUnderConstructionFail ==
    /\ pc = "write_under_construction"
    /\ Raise("write_under_construction")
    /\ UNCHANGED <<inputs, disk, readSrc, written, locals, rerun, prevCompleted,
                   startDisk>>

\* line 153
WriteCompleted2025 ==
    /\ pc = "write_completed_2025"
    /\ diskC25' = to_file(diskC25, completed_2025)
    /\ written' = written \cup {OUT_COMPLETED_2025}
    /\ pc' = "done"
    /\ UNCHANGED <<inputs, diskUC, failedIn, readSrc, locals, rerun, prevCompleted,
                   startDisk>>

\* line 153, when the file cannot be written
WriteCompleted2025Fail ==
    /\ pc = "write_completed_2025"
    /\ Raise("write_completed_2025")
    /\ UNCHANGED <<inputs, disk, readSrc, written, locals, rerun, prevCompleted,
                   startDisk>>

\* lines 181-182: the script is started again on the same input files
StartRun ==
    /\ pc \in {"done", "failed"}
    /\ ~rerun
    /\ rerun' = TRUE
    /\ prevCompleted' = (pc = "done")
    /\ startDisk' = disk
    /\ pc' = "load_parcels"
    /\ failedIn' = "none"
    /\ readSrc' = {}
    /\ written' = {}
    /\ EmptyLocals
    /\ UNCHANGED <<inputs, disk>>

Next ==
    \/ LoadParcels
    \/ LoadParcelsFail
    \/ LoadProjectsTable
    \/ LoadProjectsTableFail
    \/ Merge
    \/ BuildProjectLayer
    \/ WriteUnderConstruction
    \/ WriteUnderConstructionFail
    \/ WriteCompleted2025
    \/ WriteCompleted2025Fail
    \/ StartRun

----------------------------------------------------------------------------
(* Input files *)

\* read_file raises FileNotFoundError
AbsentFile == [state |-> "absent", crs |-> TargetCrs, rows |-> <<>>]

\* read_file raises something other than FileNotFoundError (a damaged file, a driver
\* error), or the file carries no CRS and to_crs raises
UnreadableFile == [state |-> "unreadable", crs |-> TargetCrs, rows |-> <<>>]

\* a geometry file in the given CRS; raw rows are <<PIN as stored, area>>
ParcelFile(crs, raw) ==
    [state |-> "present", crs |-> crs,
     rows  |-> [i \in 1..Len(raw) |-> [PIN |-> raw[i][1], geometry |-> Geom(raw[i][2], crs)]]]

AbsentCsv == [state |-> "absent", rows |-> <<>>]

Csv(rows) == [state |-> "present", rows |-> rows]

Assignment(parcel, project, status, year) ==
    [parcel_id |-> parcel, project_id |-> project,
     project_status |-> status, completed_year |-> year]

Project(project, name, link) ==
    [project_id |-> project, project_name |-> name, project_link |-> link]

StaleFeature ==
    [project_id |-> "P0", project_name |-> "Old", project_link |-> NaN,
     project_status |-> "Under Construction", completed_year |-> NaN,
     geometry |-> Simplify(Geom({9}, TargetCrs))]

StaleFile == [exists |-> TRUE, features |-> <<StaleFeature>>]

Pin1 == <<"1">>

Pin1Padded == <<" ", "1", " ">>

Pin2 == <<"2">>

Pin3Cust == <<"3", "C", "U", "S", "T">>

Pin3CustPadded == <<"3", "C", "U", "S", "T", " ">>

Library == Project("P1", "Library Renovation", "https://example.org/p1")

StatusYear ==
    { <<"Under Construction", NaN>>, <<"Completed", "2025">>, <<"Completed", "2024">>,
      <<"Completed", NaN>>, <<"Planned", NaN>>, <<NaN, "2025">> }

InitRun(city, custom, assign, proj, uc, c25) ==
    /\ cityFile = city
    /\ customFile = custom
    /\ assignCsv = assign
    /\ projCsv = proj
    /\ diskUC = uc
    /\ diskC25 = c25
    /\ pc = "load_parcels"
    /\ failedIn = "none"
    /\ readSrc = {}
    /\ written = {}
    /\ parcels = <<>>
    /\ project_data = <<>>
    /\ merged = <<>>
    /\ gdf_non_custom = <<>>
    /\ gdf_custom = <<>>
    /\ gdf_combined = <<>>
    /\ under_construction = <<>>
    /\ completed_2025 = <<>>
    /\ rerun = FALSE
    /\ prevCompleted = FALSE
    /\ startDisk = <<uc, c25>>

\* every source missing, unreadable or present, and the output files present or not
CityFilesBase ==
    { AbsentFile,
      ParcelFile(TargetCrs, << <<Pin1, {0}>>, <<Pin2, {2}>> >>),
      ParcelFile(OtherCrs, << <<Pin1Padded, {0}>> >>) }

CustomFilesBase ==
    { AbsentFile, UnreadableFile, ParcelFile(OtherCrs, << <<Pin3CustPadded, {4, 6}>> >>) }

AssignCsvsBase ==
    { AbsentCsv,
      Csv(<< Assignment(Pin1, "P1", "Under Construction", NaN),
             Assignment(Pin3Cust, "P1", "Under Construction", NaN),
             Assignment(Pin2, NaN, "Completed", "2025") >>),
      Csv(<< Assignment(Pin1, "P1", NaN, "2025"),
             Assignment(Pin2, "P1", "Completed", NaN),
             Assignment(Pin3Cust, "P1", "Under Construction", NaN) >>) }

ProjCsvsBase ==
    { AbsentCsv, Csv(<<Library>>), Csv(<<Library, Project("P1", "Annex", NaN)>>) }

InitBase ==
    \E city \in CityFilesBase, custom \in CustomFilesBase,
       assign \in AssignCsvsBase, proj \in ProjCsvsBase, old \in {NoFile, StaleFile} :
        InitRun(city, custom, assign, proj, old, old)

MaxCityRows == 2

MaxCustomRows == 1

MaxAssignRows == 2

MaxProjRows == 2

StdCity == ParcelFile(TargetCrs, << <<Pin1, {0}>>, <<Pin2, {2}>> >>)

StdCustom == ParcelFile(TargetCrs, << <<Pin3Cust, {4, 6}>> >>)

\* the parcel sources vary: repeated keys, padded keys, a custom row under a city key
CityRowsJoin == { <<Pin1, {0}>>, <<Pin1Padded, {1}>>, <<Pin2, {2}>> }

CustomRowsJoin == { <<Pin3CustPadded, {4, 6}>>, <<Pin1, {3}>> }

AssignRowsJoin ==
    { Assignment(k, "P1", "Under Construction", NaN) : k \in {Pin1, Pin2, Pin3Cust} }

InitParcels ==
    \E cityRows \in SeqsUpTo(CityRowsJoin, MaxCityRows),
       customRows \in SeqsUpTo(CustomRowsJoin, MaxCustomRows),
       customThere \in BOOLEAN,
       rows \in SeqsUpTo(AssignRowsJoin, MaxAssignRows) :
        /\ ~customThere => customRows = <<>>
        /\ InitRun(ParcelFile(OtherCrs, cityRows),
                   IF customThere THEN ParcelFile(TargetCrs, customRows) ELSE AbsentFile,
                   Csv(rows), Csv(<<Library>>), NoFile, NoFile)

\* the two CSVs vary: repeated, unmatched and missing project ids
AssignRowsTable ==
    { Assignment(Pin1, p, "Planned", NaN) : p \in {"P1", "P2", NaN} }

ProjRowsTable ==
    { Project(p, n, NaN) : p \in {"P1", "P2", NaN}, n \in {"Library Renovation", NaN} }

InitTable ==
    \E rows \in SeqsUpTo(AssignRowsTable, MaxAssignRows),
       projects \in SeqsUpTo(ProjRowsTable, MaxProjRows) :
        InitRun(StdCity, AbsentFile, Csv(rows), Csv(projects), NoFile, NoFile)

\* the assignments vary: which parcel belongs to which project, with which status and year
AssignRowsBuild ==
    { Assignment(k, p, sy[1], sy[2]) :
        k \in {Pin1, Pin2, Pin3Cust}, p \in {"P1", "P2"}, sy \in StatusYear }

InitBuild ==
    \E rows \in SeqsUpTo(AssignRowsBuild, MaxAssignRows) :
        InitRun(StdCity, StdCustom, Csv(rows), Csv(<<Library>>), StaleFile, StaleFile)

Init == InitBase \/ InitParcels \/ InitTable \/ InitBuild

Spec == Init /\ [][Next]_vars

SpecJoin == (InitBase \/ InitParcels) /\ [][Next]_vars

SpecTable == (InitBase \/ InitTable) /\ [][Next]_vars

SpecBuild == (InitBase \/ InitBuild) /\ [][Next]_vars

----------------------------------------------------------------------------
(* Where a run is *)

WriteSteps == {"write_under_construction", "write_completed_2025"}

\* load_parcels has returned
ParcelsLoaded == pc # "load_parcels" /\ failedIn # "load_parcels"

\* load_projects_table has returned
TableLoaded ==
    /\ ParcelsLoaded
    /\ pc # "load_projects_table"
    /\ failedIn # "load_projects_table"

\* the inner join of main has been computed
Joined == TableLoaded /\ pc # "merge"

\* build_project_layer has computed its layers
Built == Joined /\ pc # "build_project_layer"

BothOutputs == {OUT_UNDER_CONSTRUCTION, OUT_COMPLETED_2025}

AllSources == {"city", "custom", "assign", "projlist"}

Attributes == {"project_name", "project_link", "project_status", "completed_year"}

NoRepeatedProject(layer) ==
    \A i, j \in 1..Len(layer) : layer[i].project_id = layer[j].project_id => i = j

\* positions of the reconciled rows of project p that are (not) custom
CustomRows == {i \in 1..Len(merged) : EndsWith(merged[i].PIN, CUST)}

OrdinaryRows(p) ==
    {i \in 1..Len(merged) : ~EndsWith(merged[i].PIN, CUST) /\ merged[i].project_id = p}

----------------------------------------------------------------------------
(* C1: each written output layer holds at most one feature per project_id, *)
(* and the combined per-project layer holds exactly one feature for every  *)
(* project_id that has a reconciled parcel.                                *)
C1_OneFeaturePerProject ==
    Built =>
        /\ NoRepeatedProject(under_construction)
        /\ NoRepeatedProject(completed_2025)
        /\ OUT_UNDER_CONSTRUCTION \in written => NoRepeatedProject(diskUC.features)
        /\ OUT_COMPLETED_2025 \in written => NoRepeatedProject(diskC25.features)
        /\ \A r \in 1..Len(merged) :
              merged[r].project_id # NaN =>
                  Cardinality({i \in 1..Len(gdf_combined) :
                                  gdf_combined[i].project_id = merged[r].project_id}) = 1

(* C2: the status/year split is a strict partition of the matching rows:   *)
(* a row of the combined layer is in UNDER_CONSTRUCTION iff its status is  *)
(* 'Under Construction', in COMPLETED_2025 iff its status is 'Completed'   *)
(* and its year is '2025', never in both, and in neither when it matches   *)
(* neither filter; the files written hold exactly these layers.            *)
C2_SplitIsPartition ==
    Built =>
        /\ \A i \in 1..Len(gdf_combined) :
              LET f == gdf_combined[i]
              IN  /\ f \in Range(under_construction)
                        <=> f.project_status = "Under Construction"
                  /\ f \in Range(completed_2025)
                        <=> (f.project_status = "Completed" /\ f.completed_year = "2025")
                  /\ ~(f \in Range(under_construction) /\ f \in Range(completed_2025))
        /\ Range(under_construction) \cup Range(completed_2025) \subseteq Range(gdf_combined)
        /\ Len(under_construction) =
              Cardinality({i \in 1..Len(gdf_combined) :
                              gdf_combined[i].project_status = "Under Construction"})
        /\ Len(completed_2025) =
              Cardinality({i \in 1..Len(gdf_combined) :
                              /\ gdf_combined[i].project_status = "Completed"
                              /\ gdf_combined[i].completed_year = "2025"})
        /\ OUT_UNDER_CONSTRUCTION \in written => diskUC.features = under_construction
        /\ OUT_COMPLETED_2025 \in written => diskC25.features = completed_2025

\* a finished run in which a completed-2025 row went to COMPLETED_2025 alone and a
\* planned row went to neither file
C2_Witness ==
    /\ pc = "done"
    /\ \E i, j \in 1..Len(gdf_combined) :
          /\ gdf_combined[i].project_status = "Completed"
          /\ gdf_combined[i].completed_year = "2025"
          /\ gdf_combined[i] \in Range(diskC25.features)
          /\ gdf_combined[i] \notin Range(diskUC.features)
          /\ gdf_combined[j].project_status = "Planned"
          /\ gdf_combined[j] \notin Range(diskUC.features) \cup Range(diskC25.features)

(* C3: every reconciled row whose key ends with 'CUST' stays out of the    *)
(* dissolve/convex-hull input and is carried into the combined layer as    *)
(* its own row with the geometry it was loaded with; every other row       *)
(* reaches the layer only through dissolve + convex hull.                  *)
C3_CustomBypassesDissolve ==
    Built =>
        /\ gdf_combined = gdf_non_custom \o gdf_custom
        /\ Len(gdf_custom) = Cardinality(CustomRows)
        /\ \A i \in CustomRows :
              LET f == gdf_custom[Cardinality({j \in CustomRows : j <= i})]
              IN  /\ f.geometry = merged[i].geometry
                  /\ f.project_id = merged[i].project_id
                  /\ \E k \in 1..Len(parcels) :
                        parcels[k].PIN = merged[i].PIN /\ parcels[k].geometry = f.geometry
        /\ Len(gdf_non_custom) =
              Cardinality({p \in Range(ProjectOrder) : OrdinaryRows(p) # {}})
        /\ \A n \in 1..Len(gdf_non_custom) :
              LET f == gdf_non_custom[n]
                  cells == UNION {merged[i].geometry.area : i \in OrdinaryRows(f.project_id)}
              IN  /\ OrdinaryRows(f.project_id) # {}
                  /\ \A c \in Cells :
                        c \in f.geometry.area <=> \E a, b \in cells : a <= c /\ c <= b

\* a project with an ordinary parcel and a custom one: the custom row is in the layer
\* with its own shape, which the hull of the ordinary parcels does not cover
C3_Witness ==
    /\ Built
    /\ \E n \in 1..Len(gdf_non_custom), k \in 1..Len(gdf_custom) :
          /\ gdf_non_custom[n].project_id = gdf_custom[k].project_id
          /\ gdf_custom[k].geometry.area = {4, 6}
          /\ gdf_non_custom[n].geometry.area = {0, 1, 2}

(* C4: every feature written to either output file has had its geometry   *)
(* passed through the simplification step, whichever path it came by.      *)
C4_EveryWrittenFeatureSimplified ==
    /\ OUT_UNDER_CONSTRUCTION \in written =>
          \A f \in Range(diskUC.features) : f.geometry.simplified
    /\ OUT_COMPLETED_2025 \in written =>
          \A f \in Range(diskC25.features) : f.geometry.simplified

(* C5 as stated: the inner join yields at most min(parcel rows, assignment *)
(* rows) rows, every row's PIN equals its parcel_id, and no parcel without *)
(* an assignment (and no assignment without a parcel) appears.             *)
C5_JoinAtMostMin ==
    Joined =>
        /\ Len(merged) <= Len(parcels)
        /\ Len(merged) <= Len(project_data)
        /\ \A i \in 1..Len(merged) :
              /\ merged[i].PIN = merged[i].parcel_id
              /\ \E k \in 1..Len(parcels) : parcels[k].PIN = merged[i].PIN
              /\ \E k \in 1..Len(project_data) :
                    project_data[k].parcel_id = merged[i].parcel_id

(* C5 amended: the inner join yields at most (parcel rows x assignment     *)
(* rows) rows, at most the number of assignment rows when no PIN repeats   *)
(* among the parcels and at most the number of parcel rows when no         *)
(* parcel_id repeats among the assignments; every row's PIN equals its     *)
(* parcel_id, and every row pairs a loaded parcel with an assignment of    *)
(* that key.                                                               *)
C5_JoinAtMostProduct ==
    Joined =>
        /\ Len(merged) <= Len(parcels) * Len(project_data)
        /\ (\A i, j \in 1..Len(parcels) : parcels[i].PIN = parcels[j].PIN => i = j)
              => Len(merged) <= Len(project_data)
        /\ (\A i, j \in 1..Len(project_data) :
                project_data[i].parcel_id = project_data[j].parcel_id => i = j)
              => Len(merged) <= Len(parcels)
        /\ \A i \in 1..Len(merged) :
              /\ merged[i].PIN = merged[i].parcel_id
              /\ \E k \in 1..Len(parcels) :
                    /\ parcels[k].PIN = merged[i].PIN
                    /\ parcels[k].geometry = merged[i].geometry
              /\ \E k \in 1..Len(project_data) :
                    /\ project_data[k].parcel_id = merged[i].parcel_id
                    /\ project_data[k].project_id = merged[i].project_id

\* two parcels under one key, each assigned twice: four rows from two and two,
\* while a parcel that has no assignment is left out
C5_Witness ==
    /\ Joined
    /\ Len(parcels) = 2
    /\ Len(project_data) = 2
    /\ Len(merged) = 4

(* C6: load_projects_table fails whenever a project_id occurs more than    *)
(* once in the project list; otherwise it returns exactly one row per      *)
(* assignment row, in order, an assignment whose project_id has no row in  *)
(* the project list being kept with missing name and link.                 *)
C6_ManyToOneOrFail ==
    (ParcelsLoaded /\ pc # "load_projects_table") =>
        /\ (projCsv.state = "present" /\ ~NoRepeatedProject(projCsv.rows))
              => (pc = "failed" /\ failedIn = "load_projects_table")
        /\ (projCsv.state = "present" /\ assignCsv.state = "present"
            /\ NoRepeatedProject(projCsv.rows))
              => /\ failedIn # "load_projects_table"
                 /\ Len(project_data) = Len(assignCsv.rows)
                 /\ \A i \in 1..Len(project_data) :
                       LET d == project_data[i]
                           a == assignCsv.rows[i]
                           meta == {p \in Range(projCsv.rows) : p.project_id = a.project_id}
                       IN  /\ d.parcel_id = a.parcel_id
                           /\ d.project_id = a.project_id
                           /\ d.project_status = a.project_status
                           /\ d.completed_year = a.completed_year
                           /\ meta = {} => d.project_name = NaN /\ d.project_link = NaN
                           /\ \A p \in meta : /\ d.project_name = p.project_name
                                              /\ d.project_link = p.project_link

\* the table was built from two assignments, one of a described project and one of a
\* project the list does not know, which is kept without a name
C6_Witness ==
    /\ pc = "merge"
    /\ Len(project_data) = 2
    /\ \E i, j \in 1..2 :
          /\ project_data[i].project_name = "Library Renovation"
          /\ project_data[j].project_id = "P2"
          /\ project_data[j].project_name = NaN
          /\ \A p \in Range(projCsv.rows) : p.project_id # "P2"

(* C7: when the custom source is absent load_parcels does not fail and     *)
(* returns exactly the normalized city parcels (keys stripped, geometry in *)
(* EPSG:4326), and the run goes on; when the city source is absent the run *)
(* aborts in load_parcels.                                                 *)
C7_CustomOptionalCityRequired ==
    pc # "load_parcels" =>
        /\ (cityFile.state = "present" /\ customFile.state = "absent")
              => /\ failedIn # "load_parcels"
                 /\ Len(parcels) = Len(cityFile.rows)
                 /\ \A i \in 1..Len(parcels) :
                       /\ parcels[i].PIN = Strip(cityFile.rows[i].PIN)
                       /\ parcels[i].geometry.area = cityFile.rows[i].geometry.area
                       /\ parcels[i].geometry.crs = TargetCrs
        /\ cityFile.state # "present"
              => /\ pc = "failed"
                 /\ failedIn = "load_parcels"
                 /\ written = {}

\* without a custom source a run loaded padded city keys, joined them and wrote both files
C7_Witness ==
    /\ customFile.state = "absent"
    /\ pc = "done"
    /\ written = BothOutputs
    /\ \E i \in 1..Len(parcels) : parcels[i].PIN # cityFile.rows[i].PIN
    /\ merged # <<>>

(* C8 as stated: every run ends either completed with both output files   *)
(* written or failed with neither written; no output file is written       *)
(* before all four input sources have been read.                           *)
C8_BothOrNeither ==
    /\ pc = "done" => written = BothOutputs
    /\ pc = "failed" => (written = {} /\ disk = startDisk)
    /\ written # {} => readSrc = AllSources

(* C8 amended: every run ends either completed with both output files      *)
(* written, or failed; no output file is written before all four input     *)
(* sources have been read and reconciled, so a run that fails while        *)
(* loading or validating inputs, or at the first write, leaves both files  *)
(* untouched; a run that fails at the second write has rewritten           *)
(* UNDER_CONSTRUCTION alone.                                               *)
C8_NoOutputBeforeInputs ==
    /\ pc = "done" => (written = BothOutputs /\ failedIn = "none")
    /\ pc = "failed" =>
          /\ failedIn \in {"load_parcels", "load_projects_table"} \cup WriteSteps
          /\ failedIn # "write_completed_2025" => (written = {} /\ disk = startDisk)
          /\ failedIn = "write_completed_2025" =>
                /\ written = {OUT_UNDER_CONSTRUCTION}
                /\ diskUC.features = under_construction
                /\ diskC25 = startDisk[2]
    /\ written # {} => (readSrc = AllSources /\ Built)
    /\ written = {} => disk = startDisk

\* a run that wrote UNDER_CONSTRUCTION and then failed writing COMPLETED_2025
C8_Witness ==
    /\ pc = "failed"
    /\ failedIn = "write_completed_2025"
    /\ written = {OUT_UNDER_CONSTRUCTION}
    /\ diskUC # startDisk[1]
    /\ diskC25 = startDisk[2]

\* the two layers as a function of the four input files alone
LayersOf(city, custom, assign, proj) ==
    LET m == InnerJoin(load_parcels(city, custom).value,
                       load_projects_table(assign, proj).value)
        combined == BuildNonCustom(m) \o BuildCustom(m)
    IN  <<SelectSeq(combined, IsUnderConstruction), SelectSeq(combined, IsCompleted2025)>>

(* C9: a second run on unchanged input files leaves the output files as    *)
(* the first completed run left them, and what a completed run leaves in   *)
(* the files is determined by the input files alone, whatever the files    *)
(* held before.                                                            *)
C9_Idempotent ==
    /\ prevCompleted => disk = startDisk
    /\ pc = "done" =>
          /\ diskUC = [exists |-> TRUE,
                       features |-> LayersOf(cityFile, customFile, assignCsv, projCsv)[1]]
          /\ diskC25 = [exists |-> TRUE,
                        features |-> LayersOf(cityFile, customFile, assignCsv, projCsv)[2]]
          /\ StaleFeature \notin Range(diskUC.features) \cup Range(diskC25.features)

\* the second of two completed runs, over files that held features, is done
C9_Witness ==
    /\ rerun
    /\ prevCompleted
    /\ pc = "done"
    /\ diskUC.features # <<>>
    /\ diskC25.features # <<>>
    /\ disk = startDisk

(* C10: each attribute of a dissolved feature is the first value that is   *)
(* not missing among the project's non-custom rows in reconciled-row order *)
(* (missing only when all are), and the file the feature lands in is       *)
(* decided by those first values of project_status and completed_year.     *)
C10_FirstNonNullWins ==
    Built =>
        /\ \A p \in Range(ProjectOrder) :
              OrdinaryRows(p) # {} =>
                  \E n \in 1..Len(gdf_non_custom) : gdf_non_custom[n].project_id = p
        /\ \A n \in 1..Len(gdf_non_custom), a \in Attributes :
              LET f == gdf_non_custom[n]
                  present == {i \in OrdinaryRows(f.project_id) : merged[i][a] # NaN}
              IN  /\ present = {} => f[a] = NaN
                  /\ \A i \in present :
                        (\A j \in present : i <= j) => f[a] = merged[i][a]
        /\ \A n \in 1..Len(gdf_non_custom) :
              LET f == gdf_non_custom[n]
                  rows == OrdinaryRows(f.project_id)
                  status == {merged[i].project_status : i \in
                                {i \in rows : /\ merged[i].project_status # NaN
                                              /\ \A j \in rows : j < i =>
                                                    merged[j].project_status = NaN}}
                  year == {merged[i].completed_year : i \in
                                {i \in rows : /\ merged[i].completed_year # NaN
                                              /\ \A j \in rows : j < i =>
                                                    merged[j].completed_year = NaN}}
              IN  /\ f \in Range(under_construction) <=> status = {"Under Construction"}
                  /\ f \in Range(completed_2025) <=> (status = {"Completed"} /\ year = {"2025"})

\* a project whose first parcel has no status and whose second has no year: the
\* feature takes the status of the second and the year of the first, and is written
\* to COMPLETED_2025
C10_Witness ==
    /\ pc = "done"
    /\ \E n \in 1..Len(gdf_non_custom), i, j \in 1..Len(merged) :
          /\ i < j
          /\ OrdinaryRows(gdf_non_custom[n].project_id) = {i, j}
          /\ merged[i].project_status = NaN
          /\ merged[i].completed_year = "2025"
          /\ merged[j].project_status = "Completed"
          /\ merged[j].completed_year = NaN
          /\ gdf_non_custom[n] \in Range(diskC25.features)

====
